---------------------------- MODULE Spec2Model ----------------------------
(***************************************************************************)
(* A model of the Wordle engine of teddyrendahl/ainyt:                     *)
(*   - Correctness::compute, Correctness::permutations, Guess::matches     *)
(*     (wordle/src/lib.rs),                                                *)
(*   - WordleSolver::new and WordleSolver::guess (wordle/src/algorithm.rs),*)
(*   - the game loop Wordle::play and Wordle::new (wordle/src/lib.rs),     *)
(*   - the loop of main against the web page (wordle/src/main.rs).         *)
(*                                                                         *)
(* Five specifications share the variables:                                *)
(*   SpecCompute  the pure functions compute / matches on drawn inputs,    *)
(*   Spec         Wordle::play driving a Guesser (the entropy solver or a  *)
(*                scripted guesser like the ones of lib.rs' tests),        *)
(*   SpecSolver   WordleSolver::guess called directly with any history,    *)
(*   SpecLoad     Wordle::new and WordleSolver::new on drawn dictionary    *)
(*                texts,                                                   *)
(*   SpecMain     main's loop of at most six guesses.                      *)
(***************************************************************************)
EXTENDS Integers, Sequences, FiniteSets

VARIABLES
    pc,         \* position of the running operation
    answer,     \* the hidden answer (play) / `answer` argument (compute)
    guess,      \* the word last returned by the guesser / `guess` argument
    mask,       \* the mask computed, or the mask of the Guess under test
    admitted,   \* value returned by Guess::matches
    guesser,    \* which Guesser play was given
    remaining,  \* WordleSolver.remaining : Vec<(&Word, usize)>
    patterns,   \* WordleSolver.patterns  : Vec<[Correctness; 5]>
    history,    \* the history vector (play's local, guess's argument)
    i,          \* play's loop counter
    result,     \* what play returned: Option<usize>
    truthful,   \* every history handed to the solver so far was truthful
    stepwise,   \* the calls so far were turn by turn: first an empty
                \* history, then each history the previous one plus one
    text,       \* the lines of the included dictionary.txt
    dictionary, \* Wordle.dictionary : HashSet<&Word>
    output,     \* the lines main has printed to stdout
    page,       \* the rows of the Wordle web page: word typed, tiles shown
    grid,       \* the crossword's layout: width, height, shaded squares
    cells,      \* the value of each fillable cell of the live grid
    clue,       \* the clue (entry) an operation is applied to
    run,        \* the cells Grid::cells_for_clue returned
    reply,      \* the answer at hand: enter_answer's argument, or what
                \* solve_clue returned
    queue,      \* solve_grid's next_entries : VecDeque<WebEntry>
    found,      \* solve_grid's checkpoints : Vec of forked states
    checkpoints,\* solve's checkpoints : VecDeque of forked states
    cache,      \* LLMSolver.cache : HashMap<String, Option<String>>
    asked       \* the prompts sent to the LLM so far, in order

\* the state of the Wordle programs but pc, and that of the crossword's
wordleVars ==
    <<answer, guess, mask, admitted, guesser, remaining, patterns, history,
      i, result, truthful, stepwise, text, dictionary, output, page>>

crosswordVars ==
    <<grid, cells, clue, run, reply, queue, found, checkpoints, cache, asked>>

vars == <<pc, wordleVars, crosswordVars>>

-----------------------------------------------------------------------------
(* Words: [u8; 5], modelled as 5-tuples of one-letter strings.             *)

Idx == 1..5

W(a, b, c, d, e) == <<a, b, c, d, e>>

\* enum Correctness
Correct   == "Correct"
Misplaced == "Misplaced"
Wrong     == "Wrong"
Verdicts  == <<Correct, Misplaced, Wrong>>

Min(S) == CHOOSE x \in S : \A y \in S : x <= y

-----------------------------------------------------------------------------
(* Correctness::compute                                                    *)

\* first loop: greens, each marking its own answer position used
Pass1(ans, gss) ==
    [c    |-> [k \in Idx |-> IF ans[k] = gss[k] THEN Correct ELSE Wrong],
     used |-> [k \in Idx |-> ans[k] = gss[k]]]

\* a slip of the second loop: the answer position found is not marked used
RECURSIVE Pass2NoConsume(_, _, _, _, _)
Pass2NoConsume(ans, gss, c, used, k) ==
    IF k > 5 THEN c
    ELSE IF c[k] = Correct THEN Pass2NoConsume(ans, gss, c, used, k + 1)
    ELSE LET free == {j \in Idx : gss[k] = ans[j] /\ ~used[j]}
         IN  IF free = {} THEN Pass2NoConsume(ans, gss, c, used, k + 1)
             ELSE Pass2NoConsume(ans, gss, [c EXCEPT ![k] = Misplaced],
                                 used, k + 1)

\* second loop, from guess position k on: `any` stops at (and marks used)
\* the first answer position holding the letter that is not used yet
RECURSIVE Pass2(_, _, _, _, _)
Pass2(ans, gss, c, used, k) ==
    IF k > 5 THEN c
    ELSE IF c[k] = Correct THEN Pass2(ans, gss, c, used, k + 1)
    ELSE LET free == {j \in Idx : gss[k] = ans[j] /\ ~used[j]}
         IN  IF free = {} THEN Pass2(ans, gss, c, used, k + 1)
             ELSE Pass2(ans, gss, [c EXCEPT ![k] = Misplaced],
                        [used EXCEPT ![Min(free)] = TRUE], k + 1)

\* a plausible slip: one pass only, greens not reserved before the yellows
RECURSIVE OnePass(_, _, _, _, _)
OnePass(ans, gss, c, used, k) ==
    IF k > 5 THEN c
    ELSE IF ans[k] = gss[k] /\ ~used[k]
         THEN OnePass(ans, gss, [c EXCEPT ![k] = Correct],
                      [used EXCEPT ![k] = TRUE], k + 1)
    ELSE LET free == {j \in Idx : gss[k] = ans[j] /\ ~used[j]}
         IN  IF free = {} THEN OnePass(ans, gss, c, used, k + 1)
             ELSE OnePass(ans, gss, [c EXCEPT ![k] = Misplaced],
                          [used EXCEPT ![Min(free)] = TRUE], k + 1)

ComputeOnePass(ans, gss) ==
    OnePass(ans, gss, [k \in Idx |-> Wrong], [k \in Idx |-> FALSE], 1)

\* a slip: the green loop is left out, only the second loop runs
ComputeNoGreens(ans, gss) ==
    Pass2(ans, gss, [k \in Idx |-> Wrong], [k \in Idx |-> FALSE], 1)

Compute(ans, gss) ==
    LET p == Pass1(ans, gss) IN Pass2(ans, gss, p.c, p.used, 1)

\* Guess::matches, with the arguments of compute exchanged (a slip)
MatchesSwapped(g, word) == Compute(g.word, word) = g.mask

\* Guess::matches
Matches(g, word) == Compute(word, g.word) = g.mask

\* a slip in the last factor's list: [Correct, Misplaced, Misplaced]
PermutationsTypo ==
    [n \in 1..243 |->
        [k \in Idx |->
            IF k = 5
            THEN <<Correct, Misplaced, Misplaced>>[((n - 1) % 3) + 1]
            ELSE Verdicts[(((n - 1) \div (3 ^ (5 - k))) % 3) + 1]]]

\* Correctness::permutations: iproduct! of five copies of
\* [Correct, Misplaced, Wrong], the last factor varying fastest
Permutations ==
    [n \in 1..243 |->
        [k \in Idx |->
            Verdicts[(((n - 1) \div (3 ^ (5 - k))) % 3) + 1]]]

AllCorrect == [k \in Idx |-> Correct]

-----------------------------------------------------------------------------
(* The inputs of the pure functions.                                       *)

\* tests::correctness of lib.rs (the nine worked cases)
WorkedCases == {
    [answer |-> W("a", "b", "c", "d", "e"), guess |-> W("a", "b", "c", "d", "e"),
     mask |-> <<Correct, Correct, Correct, Correct, Correct>>],
    [answer |-> W("a", "b", "c", "d", "e"), guess |-> W("f", "g", "h", "i", "j"),
     mask |-> <<Wrong, Wrong, Wrong, Wrong, Wrong>>],
    [answer |-> W("a", "b", "c", "d", "e"), guess |-> W("e", "a", "b", "c", "d"),
     mask |-> <<Misplaced, Misplaced, Misplaced, Misplaced, Misplaced>>],
    [answer |-> W("a", "a", "b", "b", "b"), guess |-> W("a", "a", "c", "c", "c"),
     mask |-> <<Correct, Correct, Wrong, Wrong, Wrong>>],
    [answer |-> W("a", "a", "b", "b", "b"), guess |-> W("c", "c", "a", "a", "c"),
     mask |-> <<Wrong, Wrong, Misplaced, Misplaced, Wrong>>],
    [answer |-> W("a", "a", "b", "b", "b"), guess |-> W("c", "a", "a", "c", "c"),
     mask |-> <<Wrong, Correct, Misplaced, Wrong, Wrong>>],
    [answer |-> W("a", "z", "z", "a", "z"), guess |-> W("a", "a", "a", "b", "b"),
     mask |-> <<Correct, Misplaced, Wrong, Wrong, Wrong>>],
    [answer |-> W("b", "a", "c", "c", "c"), guess |-> W("a", "a", "d", "d", "d"),
     mask |-> <<Wrong, Correct, Wrong, Wrong, Wrong>>],
    [answer |-> W("a", "b", "c", "d", "e"), guess |-> W("a", "a", "c", "d", "e"),
     mask |-> <<Correct, Wrong, Correct, Correct, Correct>>]}

\* tests::guess_matches::matches of lib.rs: prev + [mask] allows/disallows next
MatchesCases == {
    [prev |-> W("a", "b", "c", "d", "e"), mask |-> <<Correct, Correct, Correct, Correct, Correct>>,
     next |-> W("a", "b", "c", "d", "e"), allows |-> TRUE],
    [prev |-> W("a", "b", "c", "d", "f"), mask |-> <<Correct, Correct, Correct, Correct, Correct>>,
     next |-> W("a", "b", "c", "d", "e"), allows |-> FALSE],
    [prev |-> W("a", "b", "c", "d", "e"), mask |-> <<Wrong, Wrong, Wrong, Wrong, Wrong>>,
     next |-> W("f", "g", "h", "i", "j"), allows |-> TRUE],
    [prev |-> W("a", "b", "c", "d", "e"), mask |-> <<Misplaced, Misplaced, Misplaced, Misplaced, Misplaced>>,
     next |-> W("e", "a", "b", "c", "d"), allows |-> TRUE],
    [prev |-> W("a", "a", "a", "b", "b"), mask |-> <<Correct, Misplaced, Wrong, Wrong, Wrong>>,
     next |-> W("a", "c", "c", "a", "a"), allows |-> FALSE],
    [prev |-> W("b", "a", "a", "a", "a"), mask |-> <<Wrong, Correct, Misplaced, Wrong, Wrong>>,
     next |-> W("a", "a", "c", "c", "c"), allows |-> TRUE],
    [prev |-> W("b", "a", "a", "a", "a"), mask |-> <<Wrong, Correct, Misplaced, Wrong, Wrong>>,
     next |-> W("c", "a", "a", "c", "c"), allows |-> FALSE],
    [prev |-> W("a", "b", "c", "d", "e"), mask |-> <<Wrong, Wrong, Wrong, Wrong, Wrong>>,
     next |-> W("b", "c", "d", "e", "a"), allows |-> FALSE],
    [prev |-> W("t", "a", "r", "e", "s"), mask |-> <<Wrong, Misplaced, Misplaced, Wrong, Wrong>>,
     next |-> W("b", "r", "i", "n", "k"), allows |-> FALSE]}

\* every word over a three-letter alphabet: all duplicate-letter layouts
Letters    == {"a", "b", "c"}
SmallWords == [Idx -> Letters]

\* the masks Guess::matches is tried with for the pair (word, prev)
MaskInputs(word, prev) ==
    {Compute(word, prev), Compute(prev, word), AllCorrect,
     [k \in Idx |-> Wrong], [k \in Idx |-> Misplaced]}
    \cup {t.mask : t \in {u \in MatchesCases : u.prev = prev}}

-----------------------------------------------------------------------------
(* The dictionary.  dictionary.txt itself is not part of the sources; the  *)
(* list below stands for its parsed lines `<word> <count>`: it holds the   *)
(* opening word, words that share most letters (games of up to six turns)  *)
(* and counts that differ (weighted scores).                               *)

crate == W("c", "r", "a", "t", "e")
tares == W("t", "a", "r", "e", "s")
later == W("l", "a", "t", "e", "r")
crave == W("c", "r", "a", "v", "e")
prate == W("p", "r", "a", "t", "e")
irate == W("i", "r", "a", "t", "e")
grate == W("g", "r", "a", "t", "e")
urate == W("u", "r", "a", "t", "e")
frate == W("f", "r", "a", "t", "e")
\* words that are not in the dictionary
orate == W("o", "r", "a", "t", "e")
fuzzy == W("f", "u", "z", "z", "y")

DICTIONARY ==
    << <<tares, 2>>, <<later, 3>>, <<crave, 3>>, <<prate, 2>>,
       <<crate, 1>>, <<irate, 2>>, <<grate, 1>>, <<urate, 1>>,
       <<frate, 1>> >>

\* Wordle::new: the set of the dictionary's words
DictWords == {DICTIONARY[k][1] : k \in DOMAIN DICTIONARY}

Universe == DictWords \cup {orate, fuzzy}

\* the pairs (answer, guess) compute is applied to
ComputeInputs ==
    (SmallWords \X SmallWords)
    \cup (Universe \X Universe)
    \cup {<<t.answer, t.guess>> : t \in WorkedCases}
    \cup {<<t.next, t.prev>> : t \in MatchesCases}

-----------------------------------------------------------------------------
(* WordleSolver::guess                                                     *)

\* Option<T>: None is the empty sequence, Some(x) is <<x>>
None    == << >>
Some(x) == <<x>>

\* f64::log2 in fixed point: Log2Fix[n] = round(2^16 * log2(n)).  The scores
\* of one call share the divisor remaining_count, so they are compared as
\* integers scaled by 2^16 * remaining_count^2.
Log2Fix == <<
    0, 65536, 103872, 131072, 152170, 169408,
    183983, 196608, 207744, 217706, 226717, 234944,
    242512, 249519, 256042, 262144, 267876, 273280,
    278392, 283242, 287855, 292253, 296456, 300480>>

\* remaining_count, and the sums of the same shape
RECURSIVE CountSum(_, _)
CountSum(R, k) ==
    IF k > Len(R) THEN 0 ELSE R[k][2] + CountSum(R, k + 1)

\* the inner `for (candidate, c) in &self.remaining`: in_pattern_total
RECURSIVE InPatternTotal(_, _, _, _)
InPatternTotal(R, word, pattern, k) ==
    IF k > Len(R) THEN 0
    ELSE (IF Matches([word |-> word, mask |-> pattern], R[k][1])
          THEN R[k][2] ELSE 0)
         + InPatternTotal(R, word, pattern, k + 1)

\* -sum * remaining_count, over the patterns pats (all with a total > 0):
\* each adds p * log2(p) to sum, p = in_pattern_total / remaining_count
RECURSIVE NegSum(_, _, _, _, _)
NegSum(R, word, pats, N, k) ==
    IF k > Len(pats) THEN 0
    ELSE LET t == InPatternTotal(R, word, pats[k], 1)
         IN  t * (Log2Fix[N] - Log2Fix[t]) + NegSum(R, word, pats, N, k + 1)

\* a slip of the loop: best starts at a goodness of 0 instead of None
RECURSIVE ScoreLoopFromZero(_, _, _, _, _)
ScoreLoopFromZero(R, N, pats, best, k) ==
    IF k > Len(R) THEN [patterns |-> pats, best |-> best]
    ELSE LET word     == R[k][1]
             count    == R[k][2]
             kept     == SelectSeq(pats,
                            LAMBDA q : InPatternTotal(R, word, q, 1) # 0)
             goodness == NegSum(R, word, kept, N, 1) * count
             cand     == [word |-> word, goodness |-> goodness]
             floor    == IF best = None THEN 0 ELSE best[1].goodness
             best2    == IF goodness > floor THEN Some(cand) ELSE best
         IN  ScoreLoopFromZero(R, N, kept, best2, k + 1)

\* the loop `for &(word, count) in &self.remaining`, from entry k on:
\* self.patterns.retain drops the patterns whose total is 0 for this word
\* from the list every later word (and turn) iterates
RECURSIVE ScoreLoop(_, _, _, _, _)
ScoreLoop(R, N, pats, best, k) ==
    IF k > Len(R) THEN [patterns |-> pats, best |-> best]
    ELSE LET word     == R[k][1]
             count    == R[k][2]
             kept     == SelectSeq(pats,
                            LAMBDA q : InPatternTotal(R, word, q, 1) # 0)
             goodness == NegSum(R, word, kept, N, 1) * count
             cand     == [word |-> word, goodness |-> goodness]
             best2    == IF best = None THEN Some(cand)
                         ELSE IF goodness > best[1].goodness THEN Some(cand)
                         ELSE best
         IN  ScoreLoop(R, N, kept, best2, k + 1)

\* slips of the retain: the whole dictionary is filtered anew on each call;
\* the test is inverted; nothing is pruned
RetainFresh(R, h) == SelectSeq(DICTIONARY, LAMBDA e : Matches(h[Len(h)], e[1]))
RetainNot(R, h)   == SelectSeq(R, LAMBDA e : ~Matches(h[Len(h)], e[1]))
RetainNothing(R, h) == R

\* a slip of the retain: the word just guessed is kept as a candidate
RetainKeepGuess(R, h) ==
    SelectSeq(R, LAMBDA e : Matches(h[Len(h)], e[1]) \/ e[1] = h[Len(h)].word)

\* self.remaining.retain(|(word, _)| last.matches(word))
Retain(R, h) == SelectSeq(R, LAMBDA e : Matches(h[Len(h)], e[1]))

\* a slip: a default word instead of the panic of best.unwrap()
SolverGuessDefault(h, R, pats) ==
    IF h = << >>
    THEN [ret |-> Some(crate), remaining |-> R, patterns |-> pats]
    ELSE LET R1 == Retain(R, h)
             sc == ScoreLoop(R1, CountSum(R1, 1), pats, None, 1)
         IN  [ret       |-> IF sc.best = None THEN Some(crate)
                            ELSE Some(sc.best[1].word),
              remaining |-> R1,
              patterns  |-> sc.patterns]

\* a slip: no early return, the first guess is scored like any other
SolverGuessNoOpener(h, R, pats) ==
    LET R1 == IF h = << >> THEN R ELSE Retain(R, h)
        sc == ScoreLoop(R1, CountSum(R1, 1), pats, None, 1)
    IN  [ret       |-> IF sc.best = None THEN None
                       ELSE Some(sc.best[1].word),
         remaining |-> R1,
         patterns  |-> sc.patterns]

\* a slip: the words are scored before self.remaining is pruned
SolverGuessScoreFirst(h, R, pats) ==
    IF h = << >>
    THEN [ret |-> Some(crate), remaining |-> R, patterns |-> pats]
    ELSE LET R1 == Retain(R, h)
             sc == ScoreLoop(R, CountSum(R, 1), pats, None, 1)
         IN  [ret       |-> IF sc.best = None \/ R1 = << >> THEN None
                            ELSE Some(sc.best[1].word),
              remaining |-> R1,
              patterns  |-> sc.patterns]

\* self.patterns as the scoring loop over R finds it when it comes to
\* entry k (as the retain of entry k - 1 left it), pats being the list at
\* the start of the loop
RECURSIVE PatternsAt(_, _, _)
PatternsAt(R, pats, k) ==
    IF k = 1 THEN pats
    ELSE SelectSeq(PatternsAt(R, pats, k - 1),
            LAMBDA q : InPatternTotal(R, R[k - 1][1], q, 1) # 0)

\* the in_pattern_total of word summed over the patterns pats, from k on
RECURSIVE TotalOver(_, _, _, _)
TotalOver(R, word, pats, k) ==
    IF k > Len(pats) THEN 0
    ELSE InPatternTotal(R, word, pats[k], 1) + TotalOver(R, word, pats, k + 1)

\* a slip: an empty history is taken for a new game, the solver starts over
SolverGuessResets(h, R, pats) ==
    IF h = << >>
    THEN [ret |-> Some(crate), remaining |-> DICTIONARY,
          patterns |-> Permutations]
    ELSE LET R1 == Retain(R, h)
             sc == ScoreLoop(R1, CountSum(R1, 1), pats, None, 1)
         IN  [ret       |-> IF sc.best = None THEN None
                            ELSE Some(sc.best[1].word),
              remaining |-> R1,
              patterns  |-> sc.patterns]

\* WordleSolver::guess(history) in the state (R, pats): the word returned
\* (None when best.unwrap() panics) and the state left behind
SolverGuess(h, R, pats) ==
    IF h = << >>
    THEN [ret |-> Some(crate), remaining |-> R, patterns |-> pats]
    ELSE LET R1 == Retain(R, h)
             sc == ScoreLoop(R1, CountSum(R1, 1), pats, None, 1)
         IN  [ret       |-> IF sc.best = None THEN None
                            ELSE Some(sc.best[1].word),
              remaining |-> R1,
              patterns  |-> sc.patterns]

-----------------------------------------------------------------------------
(* Guessers handed to Wordle::play                                         *)

\* the guessers of lib.rs' tests::game:
\*   if history.len() == len { hit } else { miss }
ScriptGuess(g, h) == IF Len(h) = g.len THEN g.hit ELSE g.miss

\* the last turn of play's loop `for i in 1..=32`
MaxTurns == 32

\* the scripts: the word returned at one history length and the word
\* returned at every other, in the dictionary or not
ScriptHit  == {crate, fuzzy}
ScriptMiss == {tares, fuzzy}

SolverGuesser == [kind |-> "solver", len |-> 0, hit |-> crate, miss |-> crate]

Guessers ==
    {SolverGuesser}
    \cup [kind : {"script"}, len : 0..MaxTurns,
          hit : ScriptHit, miss : ScriptMiss]

\* the answers the scripted games are played for
ScriptAnswers == {crate, tares, later, fuzzy}

\* the state of WordleSolver::new()
FreshSolver ==
    /\ remaining = DICTIONARY
    /\ patterns = Permutations

\* no crossword is being solved
NoCrossword ==
    /\ grid = << >>
    /\ cells = << >>
    /\ clue = << >>
    /\ run = << >>
    /\ reply = << >>
    /\ queue = << >>
    /\ found = << >>
    /\ checkpoints = << >>
    /\ cache = << >>
    /\ asked = << >>

Idle ==
    /\ page = << >>
    /\ NoCrossword
    /\ guess = << >>
    /\ mask = << >>
    /\ admitted = FALSE
    /\ history = << >>
    /\ i = 1
    /\ result = None
    /\ truthful = TRUE
    /\ stepwise = TRUE
    /\ text = << >>
    /\ output = << >>

-----------------------------------------------------------------------------
(* Spec: Wordle::play(answer, guesser)                                     *)

Init ==
    /\ pc = "guess"
    /\ dictionary = DictWords
    /\ guesser \in Guessers
    /\ IF guesser.kind = "solver"
       THEN answer \in Universe /\ FreshSolver
       ELSE answer \in ScriptAnswers /\ remaining = << >> /\ patterns = << >>
    /\ Idle

\* let guess = guesser.guess(&history), for the entropy solver
PlayGuessSolver ==
    /\ pc = "guess"
    /\ i <= MaxTurns
    /\ guesser.kind = "solver"
    /\ LET r == SolverGuess(history, remaining, patterns)
       IN  /\ remaining' = r.remaining
           /\ patterns' = r.patterns
           /\ IF r.ret = None
              THEN pc' = "panicked" /\ guess' = guess
              ELSE pc' = "judge" /\ guess' = r.ret[1]
    /\ UNCHANGED <<answer, mask, admitted, guesser, history, i, result,
                   truthful, stepwise>>
    /\ UNCHANGED <<text, dictionary, output, page, crosswordVars>>

\* let guess = guesser.guess(&history), for a scripted guesser
PlayGuessScript ==
    /\ pc = "guess"
    /\ i <= MaxTurns
    /\ guesser.kind = "script"
    /\ guess' = ScriptGuess(guesser, history)
    /\ pc' = "judge"
    /\ UNCHANGED <<answer, mask, admitted, guesser, remaining, patterns,
                   history, i, result, truthful, stepwise>>
    /\ UNCHANGED <<text, dictionary, output, page, crosswordVars>>

\* slips of the loop body: a 0-based score; no assert at all
JudgeZeroBased(ans, g, n, h) ==
    IF g = ans
    THEN [pc |-> "returned", result |-> Some(n - 1), history |-> h, i |-> n]
    ELSE IF g \notin DictWords
    THEN [pc |-> "panicked", result |-> None, history |-> h, i |-> n]
    ELSE [pc |-> "guess", result |-> None, i |-> n + 1,
          history |-> Append(h, [word |-> g, mask |-> Compute(ans, g)])]

JudgeNoAssert(ans, g, n, h) ==
    IF g = ans
    THEN [pc |-> "returned", result |-> Some(n), history |-> h, i |-> n]
    ELSE [pc |-> "guess", result |-> None, i |-> n + 1,
          history |-> Append(h, [word |-> g, mask |-> Compute(ans, g)])]

\* a slip of the push: the observation is put in front (newest first)
JudgeNewestFirst(ans, g, n, h) ==
    IF g = ans
    THEN [pc |-> "returned", result |-> Some(n), history |-> h, i |-> n]
    ELSE IF g \notin DictWords
    THEN [pc |-> "panicked", result |-> None, history |-> h, i |-> n]
    ELSE [pc |-> "guess", result |-> None, i |-> n + 1,
          history |-> <<[word |-> g, mask |-> Compute(ans, g)]>> \o h]

\* the rest of the loop body of turn n: the win test, then the assert,
\* then the push of the truthful observation
Judge(ans, g, n, h) ==
    IF g = ans
    THEN [pc |-> "returned", result |-> Some(n), history |-> h, i |-> n]
    ELSE IF g \notin DictWords
    THEN [pc |-> "panicked", result |-> None, history |-> h, i |-> n]
    ELSE [pc |-> "guess", result |-> None, i |-> n + 1,
          history |-> Append(h, [word |-> g, mask |-> Compute(ans, g)])]

PlayJudge ==
    /\ pc = "judge"
    /\ LET r == Judge(answer, guess, i, history)
       IN  /\ pc' = r.pc
           /\ result' = r.result
           /\ history' = r.history
           /\ i' = r.i
    /\ UNCHANGED <<answer, guess, mask, admitted, guesser, remaining,
                   patterns, truthful, stepwise>>
    /\ UNCHANGED <<text, dictionary, output, page, crosswordVars>>

\* the loop is exhausted: None
PlayNone ==
    /\ pc = "guess"
    /\ i > MaxTurns
    /\ result' = None
    /\ pc' = "returned"
    /\ UNCHANGED <<answer, guess, mask, admitted, guesser, remaining,
                   patterns, history, i, truthful, stepwise>>
    /\ UNCHANGED <<text, dictionary, output, page, crosswordVars>>

Next == PlayGuessSolver \/ PlayGuessScript \/ PlayJudge \/ PlayNone

Spec == Init /\ [][Next]_vars

-----------------------------------------------------------------------------
(* SpecSolver: WordleSolver::guess called directly, any history each time  *)

\* the longest history handed to the solver
MaxHist == 3

\* observations (g, m): m is what some answer a would give for g, so a
\* caller that changes a between calls is an oracle that lies
GuessWords    == {crate, tares, fuzzy}
OracleAnswers == {grate, later, fuzzy}

Observations ==
    {[word |-> g, mask |-> Compute(a, g)] :
        a \in OracleAnswers, g \in GuessWords}

IsTruthful(h) ==
    \A k \in DOMAIN h : h[k].mask = Compute(answer, h[k].word)

InitSolver ==
    /\ pc = "new"
    /\ dictionary = {}
    /\ answer \in OracleAnswers
    /\ guesser = SolverGuesser
    /\ FreshSolver
    /\ Idle

\* one call guess(&h)
Call(h) ==
    /\ pc \in {"new", "called"}
    /\ LET r == SolverGuess(h, remaining, patterns)
       IN  /\ remaining' = r.remaining
           /\ patterns' = r.patterns
           /\ IF r.ret = None
              THEN pc' = "panicked" /\ guess' = guess
              ELSE pc' = "called" /\ guess' = r.ret[1]
    /\ truthful' = (truthful /\ IsTruthful(h))
    /\ stepwise' = (stepwise /\ Len(h) = (IF pc = "new" THEN 0
                                            ELSE Len(history) + 1))
    /\ history' = h
    /\ UNCHANGED <<answer, mask, admitted, guesser, i, result>>
    /\ UNCHANGED <<text, dictionary, output, page, crosswordVars>>

\* the first turn's call
CallEmpty == Call(<< >>)

\* a call whose history is the previous one and one more observation
CallNext ==
    /\ Len(history) < MaxHist
    /\ \E o \in Observations : Call(Append(history, o))

\* a call with an unrelated history
CallOther == \E o \in Observations : Call(<<o>>)

NextSolver == CallEmpty \/ CallNext \/ CallOther

SpecSolver == InitSolver /\ [][NextSolver]_vars

-----------------------------------------------------------------------------
(* SpecCompute: Correctness::compute and Guess::matches on drawn inputs    *)

InitCompute ==
    /\ pc = "start"
    /\ page = << >>
    /\ NoCrossword
    /\ \E p \in ComputeInputs : answer = p[1] /\ guess = p[2]
    /\ guesser = [kind |-> "none", len |-> 0, hit |-> crate, miss |-> crate]
    /\ remaining = << >>
    /\ patterns = << >>
    /\ mask = << >>
    /\ admitted = FALSE
    /\ history = << >>
    /\ i = 1
    /\ result = None
    /\ truthful = TRUE
    /\ stepwise = TRUE
    /\ text = << >>
    /\ dictionary = {}
    /\ output = << >>

\* mask = Correctness::compute(answer, guess)
DoCompute ==
    /\ pc = "start"
    /\ mask' = Compute(answer, guess)
    /\ pc' = "computed"
    /\ UNCHANGED <<answer, guess, admitted, guesser, remaining, patterns,
                   history, i, result, truthful, stepwise>>
    /\ UNCHANGED <<text, dictionary, output, page, crosswordVars>>

\* admitted = Guess { word: guess, mask: m }.matches(answer)
DoMatches ==
    /\ pc = "start"
    /\ \E m \in MaskInputs(answer, guess) :
          /\ mask' = m
          /\ admitted' = Matches([word |-> guess, mask |-> m], answer)
    /\ pc' = "matched"
    /\ UNCHANGED <<answer, guess, guesser, remaining, patterns, history, i,
                   result, truthful, stepwise>>
    /\ UNCHANGED <<text, dictionary, output, page, crosswordVars>>

NextCompute == DoCompute \/ DoMatches

SpecCompute == InitCompute /\ [][NextCompute]_vars

-----------------------------------------------------------------------------
(* SpecLoad: the two constructors reading the included dictionary.txt.  A  *)
(* line is a sequence of one-character strings.                            *)

\* the position of the first ' ' of line l from position k on, 0 if none
RECURSIVE FirstSpace(_, _)
FirstSpace(l, k) ==
    IF k > Len(l) THEN 0
    ELSE IF l[k] = " " THEN k
    ELSE FirstSpace(l, k + 1)

\* str::split_once(' '): the parts before and after the first space
SplitOnce(l) ==
    LET k == FirstSpace(l, 1)
    IN  IF k = 0 THEN None
        ELSE Some(<<SubSeq(l, 1, k - 1), SubSeq(l, k + 1, Len(l))>>)

Digits == <<"0", "1", "2", "3", "4", "5", "6", "7", "8", "9">>

\* the number written by the digits ds
RECURSIVE DigitsValue(_, _)
DigitsValue(ds, acc) ==
    IF ds = << >> THEN acc
    ELSE DigitsValue(Tail(ds),
             10 * acc + (CHOOSE d \in 0..9 : Digits[d + 1] = Head(ds)))

\* str::parse::<usize>: an optional '+', then one digit or more and
\* nothing else (the counts drawn here are far below usize::MAX)
ParseUsize(str) ==
    LET ds == IF str # << >> /\ Head(str) = "+" THEN Tail(str) ELSE str
    IN  IF ds = << >> THEN None
        ELSE IF \E k \in DOMAIN ds : \A d \in DOMAIN Digits : ds[k] # Digits[d]
        THEN None
        ELSE Some(DigitsValue(ds, 0))

\* the closure of Wordle::new on one line: the word, None for a panic.
\* The part after the space is dropped unread.
WordleNewLine(l) ==
    LET sp == SplitOnce(l)
    IN  IF sp = None THEN None
        ELSE IF Len(sp[1][1]) # 5 THEN None
        ELSE Some(sp[1][1])

\* the closure of WordleSolver::new on one line: (word, count), None for
\* a panic
SolverNewLine(l) ==
    LET sp == SplitOnce(l)
    IN  IF sp = None THEN None
        ELSE LET count == ParseUsize(sp[1][2])
             IN  IF count = None THEN None
                 ELSE IF Len(sp[1][1]) # 5 THEN None
                 ELSE Some(<<sp[1][1], count[1]>>)

\* the most lines of a drawn text
MaxLines == 2

\* lines as they may stand in a dictionary file: two good ones, then no
\* space, a word of four bytes, a word of six, a count that is no number,
\* no count, a negative count
SampleLines == {
    crate \o <<" ", "1">>,
    tares \o <<" ", "1", "2">>,
    crate,
    <<"c", "r", "a", "t", " ", "1">>,
    <<"c", "r", "a", "t", "e", "s", " ", "1">>,
    crate \o <<" ", "x">>,
    crate \o <<" ">>,
    crate \o <<" ", "-", "1">>}

\* the lines DICTIONARY stands for
DictionaryTxt ==
    [k \in DOMAIN DICTIONARY |->
        DICTIONARY[k][1] \o <<" ", Digits[DICTIONARY[k][2] + 1]>>]

Texts ==
    {DictionaryTxt} \cup UNION {[1..n -> SampleLines] : n \in 0..MaxLines}

InitLoad ==
    /\ pc = "start"
    /\ page = << >>
    /\ NoCrossword
    /\ text \in Texts
    /\ dictionary = {}
    /\ output = << >>
    /\ answer = crate
    /\ guess = << >>
    /\ guesser = [kind |-> "none", len |-> 0, hit |-> crate, miss |-> crate]
    /\ remaining = << >>
    /\ patterns = << >>
    /\ mask = << >>
    /\ admitted = FALSE
    /\ history = << >>
    /\ i = 1
    /\ result = None
    /\ truthful = TRUE
    /\ stepwise = TRUE

\* Wordle::new(): HashSet::from_iter over the lines, a panic on the first
\* line its closure does not take
WordleNew ==
    /\ pc = "start"
    /\ IF \E k \in DOMAIN text : WordleNewLine(text[k]) = None
       THEN pc' = "panicked" /\ dictionary' = dictionary
       ELSE /\ pc' = "wordle"
            /\ dictionary' = {WordleNewLine(text[k])[1] : k \in DOMAIN text}
    /\ UNCHANGED <<answer, guess, mask, admitted, guesser, remaining,
                   patterns, history, i, result, truthful, stepwise>>
    /\ UNCHANGED <<text, output, page, crosswordVars>>

\* WordleSolver::new(), in a program that made no Wordle (main.rs) or
\* after Wordle::new() (tests/integration_test.rs)
SolverNew ==
    /\ pc \in {"start", "wordle"}
    /\ IF \E k \in DOMAIN text : SolverNewLine(text[k]) = None
       THEN pc' = "panicked" /\ UNCHANGED <<remaining, patterns>>
       ELSE /\ pc' = (IF pc = "start" THEN "solver" ELSE "both")
            /\ remaining' = [k \in DOMAIN text |-> SolverNewLine(text[k])[1]]
            /\ patterns' = Permutations
    /\ UNCHANGED <<answer, guess, mask, admitted, guesser, history, i,
                   result, truthful, stepwise>>
    /\ UNCHANGED <<text, dictionary, output, page, crosswordVars>>

NextLoad == WordleNew \/ SolverNew

SpecLoad == InitLoad /\ [][NextLoad]_vars

-----------------------------------------------------------------------------
(* SpecMain: the loop of main.rs, the solver against the Wordle web page.  *)
(* `answer` is the word behind the page.                                   *)

\* the last turn of main's loop `for i in 1..=6`
MaxGuesses == 6

\* u8::to_ascii_uppercase on the lower-case letters
UpperCase ==
    [a |-> "A", b |-> "B", c |-> "C", d |-> "D", e |-> "E", f |-> "F",
     g |-> "G", h |-> "H", i |-> "I", j |-> "J", k |-> "K", l |-> "L",
     m |-> "M", n |-> "N", o |-> "O", p |-> "P", q |-> "Q", r |-> "R",
     s |-> "S", t |-> "T", u |-> "U", v |-> "V", w |-> "W", x |-> "X",
     y |-> "Y", z |-> "Z"]

\* str::to_ascii_uppercase: guess_str of main
ToAsciiUppercase(str) ==
    [k \in DOMAIN str |->
        IF str[k] \in DOMAIN UpperCase THEN UpperCase[str[k]] ELSE str[k]]

\* str::to_ascii_lowercase: the keys enter_answer clicks
ToAsciiLowercase(str) ==
    [k \in DOMAIN str |->
        IF \E c \in DOMAIN UpperCase : UpperCase[c] = str[k]
        THEN CHOOSE c \in DOMAIN UpperCase : UpperCase[c] = str[k]
        ELSE str[k]]

\* the two println! of main
GuessedLine(str, m) == [line |-> "Guessed: ", word |-> str, mask |-> m]
CompleteLine(str)   == [line |-> "Puzzle complete, Word was ", word |-> str]

InitMain ==
    /\ pc = "guess"
    /\ answer \in Universe
    /\ guesser = SolverGuesser
    /\ dictionary = {}
    /\ FreshSolver
    /\ Idle

\* let guess = guesser.guess(&guess_history)
MainGuess ==
    /\ pc = "guess"
    /\ i <= MaxGuesses
    /\ LET r == SolverGuess(history, remaining, patterns)
       IN  /\ remaining' = r.remaining
           /\ patterns' = r.patterns
           /\ IF r.ret = None
              THEN pc' = "panicked" /\ guess' = guess
              ELSE pc' = "submit" /\ guess' = r.ret[1]
    /\ UNCHANGED <<answer, mask, admitted, guesser, history, i, result,
                   truthful, stepwise>>
    /\ UNCHANGED <<text, dictionary, output, page, crosswordVars>>

\* a slip of the loop body: the observation is pushed before the win test
MainJudgePushFirst(m, g, n, h, out) ==
    LET str == ToAsciiUppercase(g)
        h2  == Append(h, [word |-> g, mask |-> m])
    IN  IF \A k \in Idx : m[k] = Correct
        THEN [pc |-> "returned", history |-> h2, i |-> n,
              output |-> out \o <<GuessedLine(str, m), CompleteLine(str)>>]
        ELSE [pc |-> "guess", i |-> n + 1, history |-> h2,
              output |-> Append(out, GuessedLine(str, m))]

\* the rest of the loop body of turn n once the page gave the mask m for
\* the word g: the mask line, the win test, the push
MainJudge(m, g, n, h, out) ==
    LET str == ToAsciiUppercase(g)
    IN  IF \A k \in Idx : m[k] = Correct
        THEN [pc |-> "returned", history |-> h, i |-> n,
              output |-> out \o <<GuessedLine(str, m), CompleteLine(str)>>]
        ELSE [pc |-> "guess", i |-> n + 1,
              history |-> Append(h, [word |-> g, mask |-> m]),
              output |-> Append(out, GuessedLine(str, m))]

\* enter_answer(answer): the page is typed the lower-cased word and
\* Enter; it fills its next row and shows the feedback of its own word
EnterAnswer(rows, ans, str) ==
    LET typed == ToAsciiLowercase(str)
    IN  Append(rows, [word |-> typed, tiles |-> Compute(ans, typed)])

\* the row main asks driver.guess for on turn n
MainRow(n) == n

\* get_mask(row): the tiles of "Row {row}", None when the page has no
\* tiles in a known state there
GetMask(rows, row) ==
    IF row \in DOMAIN rows THEN Some(rows[row].tiles) ELSE None

\* driver.guess(&guess_str, i) gave Ok(mask)
MainSubmit ==
    /\ pc = "submit"
    /\ page' = EnterAnswer(page, answer, ToAsciiUppercase(guess))
    /\ GetMask(page', MainRow(i)) # None
    /\ LET m == GetMask(page', MainRow(i))[1]
           r == MainJudge(m, guess, i, history, output)
       IN  /\ mask' = m
           /\ pc' = r.pc
           /\ history' = r.history
           /\ i' = r.i
           /\ output' = r.output
    /\ UNCHANGED <<answer, guess, admitted, guesser, remaining, patterns,
                   result, truthful, stepwise, text, dictionary>>
    /\ UNCHANGED crosswordVars

\* driver.guess gave Err, or a tile in no known state: main panics, the
\* word typed or not
MainDriverFails ==
    /\ pc = "submit"
    /\ pc' = "panicked"
    /\ page' \in {page, EnterAnswer(page, answer, ToAsciiUppercase(guess))}
    /\ UNCHANGED <<answer, guess, mask, admitted, guesser, remaining,
                   patterns, history, i, result, truthful, stepwise>>
    /\ UNCHANGED <<text, dictionary, output, crosswordVars>>

\* the loop is exhausted: main returns
MainExit ==
    /\ pc = "guess"
    /\ i > MaxGuesses
    /\ pc' = "returned"
    /\ UNCHANGED <<answer, guess, mask, admitted, guesser, remaining,
                   patterns, history, i, result, truthful, stepwise>>
    /\ UNCHANGED <<text, dictionary, output, page, crosswordVars>>

NextMain == MainGuess \/ MainSubmit \/ MainDriverFails \/ MainExit

SpecMain == InitMain /\ [][NextMain]_vars

-----------------------------------------------------------------------------
(* The two-pass reference of the feedback rule, by consumed positions      *)

RefGreens(a, g) == {k \in Idx : g[k] = a[k]}

\* the unconsumed answer positions that hold the letter of guess position k
RefFree(a, g, k, consumed) == {j \in Idx \ consumed : a[j] = g[k]}

\* the answer positions consumed when pass 2 comes to guess position k
RECURSIVE RefConsumed(_, _, _)
RefConsumed(a, g, k) ==
    IF k = 1 THEN RefGreens(a, g)
    ELSE LET c == RefConsumed(a, g, k - 1)
             f == RefFree(a, g, k - 1, c)
         IN  IF (k - 1) \in RefGreens(a, g) \/ f = {} THEN c
             ELSE c \cup {Min(f)}

RefFeedback(a, g) ==
    [k \in Idx |->
        IF k \in RefGreens(a, g) THEN Correct
        ELSE IF RefFree(a, g, k, RefConsumed(a, g, k)) # {} THEN Misplaced
        ELSE Wrong]

-----------------------------------------------------------------------------
(* Claims                                                                  *)

\* C1: Correctness::compute(answer, guess) is the two-pass reference
\* (greens first, each consuming its own position; then, left to right, a
\* non-green position is Misplaced iff an unconsumed answer position holds
\* its letter, the first such being consumed), and the nine worked cases
\* give exactly the masks listed.
ComputeIsTwoPass ==
    pc = "computed" =>
        /\ mask = RefFeedback(answer, guess)
        /\ \A t \in WorkedCases :
              (answer = t.answer /\ guess = t.guess) => mask = t.mask

\* a later green reserves the only copy: baccc / aaddd gives W C W W W
ComputeIsTwoPassWitness ==
    /\ pc = "computed"
    /\ answer = W("b", "a", "c", "c", "c")
    /\ guess = W("a", "a", "d", "d", "d")
    /\ mask = <<Wrong, Correct, Wrong, Wrong, Wrong>>

\* C6: Guess{word: g, mask: m}.matches(c) is true iff compute(c, g) = m; so
\* a word is admitted by the observation made of its own feedback, and the
\* cases of tests::guess_matches come out as written.
MatchesIsFeedbackEquality ==
    pc = "matched" =>
        /\ admitted = (Compute(answer, guess) = mask)
        /\ (mask = RefFeedback(answer, guess)) => admitted
        /\ \A t \in MatchesCases :
              (guess = t.prev /\ mask = t.mask /\ answer = t.next)
                  => admitted = t.allows

\* baaaa + [W C M W W] allows aaccc, and does not the other way round
MatchesIsFeedbackEqualityWitness ==
    /\ pc = "matched"
    /\ guess = W("b", "a", "a", "a", "a")
    /\ answer = W("a", "a", "c", "c", "c")
    /\ mask = <<Wrong, Correct, Misplaced, Wrong, Wrong>>
    /\ admitted
    /\ Compute(guess, answer) # mask

\* the words of a candidate list
WordsOf(R) == {R[k][1] : k \in DOMAIN R}

\* C2: in a game played turn by turn (first an empty history, then each
\* history the previous one plus one observation), after every call each
\* entry left in the candidate set is consistent with every observation
\* of the history, not only with the last one.
ConsistentWithHistory ==
    (stepwise /\ pc \in {"called", "panicked"}) =>
        \A w \in WordsOf(remaining) :
            \A n \in DOMAIN history : Matches(history[n], w)

\* two different observations were applied, and a dictionary word that the
\* last one alone admits is gone because of the first
ConsistentWithHistoryWitness ==
    /\ stepwise
    /\ pc = "called"
    /\ Len(history) = 2
    /\ remaining # << >>
    /\ \E w \in DictWords :
          /\ Matches(history[2], w)
          /\ ~Matches(history[1], w)
          /\ w \notin WordsOf(remaining)

\* C3: over any sequence of calls the candidate set only loses entries
\* (its size never grows), and while every observation handed over is
\* truthful for an answer of the dictionary, that answer stays in the set.
MonotonePruning ==
    [][/\ Len(remaining') <= Len(remaining)
       /\ WordsOf(remaining') \subseteq WordsOf(remaining)
       /\ (truthful' /\ answer \in DictWords)
             => answer \in WordsOf(remaining')]_vars

\* a truthful game two observations long that pruned words, not the answer
MonotonePruningWitness ==
    /\ pc = "called"
    /\ truthful
    /\ answer \in DictWords
    /\ Len(history) >= 2
    /\ history[1] # history[2]
    /\ Len(remaining) < Len(DICTIONARY)
    /\ answer \in WordsOf(remaining)

\* C9: when the pruning by the last observation leaves the candidate set
\* empty, guess returns no word: best.unwrap() panics.
EmptySetPanics ==
    [][(history' # << >> /\ remaining' = << >>)
          => (pc' = "panicked" /\ guess' = guess)]_vars

\* an oracle that changed its answer emptied a set that was not empty
EmptySetPanicsWitness ==
    /\ pc = "panicked"
    /\ remaining = << >>
    /\ Len(history) >= 2
    /\ ~truthful
    /\ guess \in DictWords

-----------------------------------------------------------------------------
(* Naive::guess (algorithms/naive.rs)                                      *)

\* self.remaining is a HashMap from word to count: it is written as the
\* list of its entries, and nothing below depends on their order but the
\* choice among equal scores, which is left open
NaiveGuesser == [kind |-> "naive", len |-> 0, hit |-> tares, miss |-> tares]

\* the feedback each candidate of R, from entry k on, gives for word: what
\* g.matches(candidate) compares the pattern with
RECURSIVE NaiveFeedbacks(_, _, _)
NaiveFeedbacks(R, word, k) ==
    IF k > Len(R) THEN << >>
    ELSE <<Compute(R[k][1], word)>> \o NaiveFeedbacks(R, word, k + 1)

\* the inner `for candidate in self.remaining.keys()` for the scored word
\* of count `count`: in_pattern_total += count for each candidate that
\* matches the pattern, F being the candidates' feedbacks for the word
RECURSIVE NaiveInPatternTotal(_, _, _, _)
NaiveInPatternTotal(F, count, pattern, k) ==
    IF k > Len(F) THEN 0
    ELSE (IF F[k] = pattern THEN count ELSE 0)
         + NaiveInPatternTotal(F, count, pattern, k + 1)

\* -sum * remaining_count * 2^16 over the patterns pats (all of a total
\* > 0): each adds p * log2(p) to sum, p = in_pattern_total / N
RECURSIVE NaiveNegSum(_, _, _, _, _)
NaiveNegSum(F, count, pats, N, k) ==
    IF k > Len(pats) THEN 0
    ELSE LET t == NaiveInPatternTotal(F, count, pats[k], 1)
         IN  t * (Log2Fix[N] - Log2Fix[t])
             + NaiveNegSum(F, count, pats, N, k + 1)

\* goodness of the entry k of R, scaled by remaining_count * 2^16; the
\* patterns come fresh from Correctness::permutations() for every word
NaiveGoodness(R, k) ==
    LET count   == R[k][2]
        F       == NaiveFeedbacks(R, R[k][1], 1)
        nonzero == SelectSeq(Permutations,
                      LAMBDA q : NaiveInPatternTotal(F, count, q, 1) # 0)
    IN  NaiveNegSum(F, count, nonzero, CountSum(R, 1), 1)

\* the goodness of the entries of R from k on
RECURSIVE NaiveScores(_, _)
NaiveScores(R, k) ==
    IF k > Len(R) THEN << >>
    ELSE <<NaiveGoodness(R, k)>> \o NaiveScores(R, k + 1)

\* the words `best` can hold after the loop: the first of the greatest
\* goodness in the order the map is iterated, any of them for some order
NaiveBest(R) ==
    LET goodness == NaiveScores(R, 1)
    IN  {R[k][1] : k \in {j \in DOMAIN R :
                            \A m \in DOMAIN R : goodness[m] <= goodness[j]}}

\* Naive::guess(history) with self.remaining = R: the words it can
\* return ({} when best.unwrap() panics) and the map left behind
NaiveGuess(h, R) ==
    IF h = << >>
    THEN [ret |-> {tares}, remaining |-> R]
    ELSE LET R1 == Retain(R, h)
         IN  [ret |-> NaiveBest(R1), remaining |-> R1]

\* Naive::new() and no call yet
InitNaive ==
    /\ pc = "new"
    /\ dictionary = {}
    /\ answer \in OracleAnswers
    /\ guesser = NaiveGuesser
    /\ remaining = DICTIONARY
    /\ patterns = << >>
    /\ history = << >>
    /\ truthful = TRUE
    /\ stepwise = TRUE
    /\ Idle

\* one call guess(&h) of the naive solver
NaiveCall(h) ==
    /\ pc \in {"new", "called"}
    /\ LET r == NaiveGuess(h, remaining)
       IN  /\ remaining' = r.remaining
           /\ IF r.ret = {}
              THEN pc' = "panicked" /\ guess' = guess
              ELSE pc' = "called" /\ guess' \in r.ret
    /\ truthful' = (truthful /\ IsTruthful(h))
    /\ stepwise' = (stepwise /\ Len(h) = (IF pc = "new" THEN 0
                                            ELSE Len(history) + 1))
    /\ history' = h
    /\ UNCHANGED <<answer, mask, admitted, guesser, patterns, i, result>>
    /\ UNCHANGED <<text, dictionary, output, page, crosswordVars>>

NaiveCallEmpty == NaiveCall(<< >>)

\* the longest history handed to the naive solver
MaxNaiveHist == 2

NaiveCallNext ==
    /\ Len(history) < MaxNaiveHist
    /\ \E o \in Observations : NaiveCall(Append(history, o))

NaiveCallOther == \E o \in Observations : NaiveCall(<<o>>)

NextNaive == NaiveCallEmpty \/ NaiveCallNext \/ NaiveCallOther

SpecNaive == InitNaive /\ [][NextNaive]_vars

-----------------------------------------------------------------------------
(* crossword: Grid (crossword/src/lib.rs)                                  *)

\* Position, zero-indexed
Pos(r, c) == [row |-> r, column |-> c]

\* Direction
Across == "Across"
Down   == "Down"

\* Grid::from(&Puzzle): width, height and the shaded squares; the Fill of
\* a fillable cell is shared by every clone of the cell, so the values
\* live in one store `cells` indexed by position
GridOf(w, h, sh) == [width |-> w, height |-> h, shaded |-> sh]

\* the fillable positions of the grid g
Fillable(g) ==
    {Pos(r, c) : r \in 0..(g.height - 1), c \in 0..(g.width - 1)} \ g.shaded

\* the grid of tests::test_get_clue_cells and tests::test_cell_entry, and
\* the grid of tests::test_crosses
TestGrid == GridOf(2, 2, {Pos(0, 1)})
OpenGrid == GridOf(2, 2, {})
Grids    == {TestGrid, OpenGrid}

\* a slip of the loop: a shaded cell is stepped over
RECURSIVE CellsForClueOverShaded(_, _, _)
CellsForClueOverShaded(g, position, direction) ==
    IF position.column >= g.width \/ position.row >= g.height THEN << >>
    ELSE LET next == IF direction = Across
                     THEN Pos(position.row, position.column + 1)
                     ELSE Pos(position.row + 1, position.column)
         IN  (IF position \in g.shaded THEN << >> ELSE <<position>>)
             \o CellsForClueOverShaded(g, next, direction)

\* Grid::cells_for_clue, from `position` on: the positions of the cells
\* pushed (each with the Fill kept in `cells` at that position)
RECURSIVE CellsForClue(_, _, _)
CellsForClue(g, position, direction) ==
    IF position.column >= g.width \/ position.row >= g.height THEN << >>
    ELSE IF position \in g.shaded THEN << >>
    ELSE LET next == IF direction = Across
                     THEN Pos(position.row, position.column + 1)
                     ELSE Pos(position.row + 1, position.column)
         IN  <<position>> \o CellsForClue(g, next, direction)

\* String::len: the length of the UTF-8 encoding, two bytes for e-acute
Utf8Len(ch) == IF ch = "e-acute" THEN 2 ELSE 1

RECURSIVE StrLen(_)
StrLen(str) ==
    IF str = << >> THEN 0 ELSE Utf8Len(Head(str)) + StrLen(Tail(str))

\* Grid::enter_answer(clue, answer) on the values cs: ok is FALSE when the
\* assert_eq! fails; the zip stops at the shorter of cells and chars
EnterAnswerInto(g, cs, c, str) ==
    LET cl == CellsForClue(g, c.position, c.direction)
        up == ToAsciiUppercase(str)
    IN  IF Len(cl) # StrLen(str)
        THEN [ok |-> FALSE, cells |-> cs]
        ELSE [ok    |-> TRUE,
              cells |-> [q \in DOMAIN cs |->
                  IF \E j \in DOMAIN cl : j <= Len(str) /\ cl[j] = q
                  THEN Some(up[CHOOSE j \in DOMAIN cl :
                                    j <= Len(str) /\ cl[j] = q])
                  ELSE cs[q]]]

\* Grid::answer_for
AnswerFor(g, cs, c) ==
    LET cl == CellsForClue(g, c.position, c.direction)
    IN  [j \in DOMAIN cl |->
            IF cs[cl[j]] = None THEN "_" ELSE cs[cl[j]][1]]

\* the longest answer entered
MaxAnswerLen == 2

\* the chars of the answers: a lower-case and an upper-case ASCII letter
\* and one char of two bytes
AnswerChars == {"a", "B", "e-acute"}

GridAnswers ==
    UNION {[1..n -> AnswerChars] : n \in 0..MaxAnswerLen}

\* the clues: any direction, any start in or just outside a 2 x 2 grid
GridClues ==
    {[position |-> Pos(r, c), direction |-> d] :
        r \in 0..2, c \in 0..2, d \in {Across, Down}}

\* a grid built from its puzzle, nothing entered
InitGrid ==
    /\ pc = "grid"
    /\ grid \in Grids
    /\ cells = [q \in Fillable(grid) |-> None]
    /\ clue = << >> /\ run = << >> /\ reply = << >>
    /\ queue = << >> /\ found = << >> /\ checkpoints = << >>
    /\ cache = << >> /\ asked = << >>
    /\ page = << >>
    /\ answer = << >> /\ guesser = << >> /\ remaining = << >>
    /\ patterns = << >> /\ history = << >> /\ dictionary = {}
    /\ guess = << >> /\ mask = << >> /\ admitted = FALSE /\ i = 1
    /\ result = << >> /\ truthful = TRUE /\ stepwise = TRUE
    /\ text = << >> /\ output = << >>

\* grid.cells_for_clue(&c)
GridCellsForClue ==
    /\ pc # "panicked"
    /\ \E c \in GridClues :
          /\ clue' = c
          /\ run' = CellsForClue(grid, c.position, c.direction)
    /\ pc' = "cells"
    /\ reply' = << >>
    /\ UNCHANGED <<grid, cells, queue, found, checkpoints, cache, asked>>
    /\ UNCHANGED wordleVars

\* grid.enter_answer(&c, str)
GridEnterAnswer ==
    /\ pc # "panicked"
    /\ \E c \in GridClues, str \in GridAnswers :
          LET r == EnterAnswerInto(grid, cells, c, str)
          IN  /\ clue' = c
              /\ reply' = str
              /\ run' = CellsForClue(grid, c.position, c.direction)
              /\ cells' = r.cells
              /\ pc' = IF r.ok THEN "entered" ELSE "panicked"
    /\ UNCHANGED <<grid, queue, found, checkpoints, cache, asked>>
    /\ UNCHANGED wordleVars

NextGrid == GridCellsForClue \/ GridEnterAnswer

SpecGrid == InitGrid /\ [][NextGrid]_vars

-----------------------------------------------------------------------------
(* crossword: LLMSolver (crossword/src/solver.rs) over the entries of      *)
(* crossword/src/web.rs.  The cell of a position is one InMemoryCell that  *)
(* every entry through the position shares, so the live values are the     *)
(* store `cells`; the page shows what was entered and knows the solution.  *)

\* the puzzle driven: the open 2 x 2 grid and the clues get_clues gives for
\* it, the across clues first
Puzzle == OpenGrid

Entries == <<
    [number |-> 1, direction |-> Across, position |-> Pos(0, 0)],
    [number |-> 3, direction |-> Across, position |-> Pos(1, 0)],
    [number |-> 1, direction |-> Down,   position |-> Pos(0, 0)],
    [number |-> 2, direction |-> Down,   position |-> Pos(0, 1)] >>

\* WebEntry::positions, the cells generate_entries made from
\* positions_for_clue
Positions(e) == CellsForClue(Puzzle, e.position, e.direction)

\* WebEntry::chars and WebEntry::value on the values cs
Chars(cs, e) == [j \in DOMAIN Positions(e) |-> cs[Positions(e)[j]]]

Value(cs, e) ==
    [j \in DOMAIN Positions(e) |->
        IF Chars(cs, e)[j] = None THEN "_" ELSE Chars(cs, e)[j][1]]

\* WebEntry::length
Length(cs, e) == Len(Chars(cs, e))

\* WebEntry::fits: the zip stops at the shorter of the cells and the chars
Fits(cs, e, ans) ==
    \A j \in DOMAIN Positions(e) :
        j <= Len(ans) =>
            (Chars(cs, e)[j] = None \/ Chars(cs, e)[j] = Some(ans[j]))

\* WebEntry::filled
Filled(cs, e) == \A j \in DOMAIN Positions(e) : Chars(cs, e)[j] # None

\* WebEntry::write_chars (and InMemoryEntry's): a cell per char, written
\* for Some and cleared for None, as far as the shorter of the two goes
WriteChars(cs, e, chars) ==
    [q \in DOMAIN cs |->
        IF \E j \in DOMAIN Positions(e) : j <= Len(chars) /\ Positions(e)[j] = q
        THEN chars[CHOOSE j \in DOMAIN Positions(e) :
                        j <= Len(chars) /\ Positions(e)[j] = q]
        ELSE cs[q]]

\* WebEntry::write (and InMemoryEntry's)
Write(cs, e, ans) == WriteChars(cs, e, [j \in DOMAIN ans |-> Some(ans[j])])

\* InMemoryEntry::clear
Clear(cs, e) ==
    [q \in DOMAIN cs |->
        IF \E j \in DOMAIN Positions(e) : Positions(e)[j] = q
        THEN None ELSE cs[q]]

\* Direction::cross
Cross(d) == IF d = Across THEN Down ELSE Across

\* entry_for_cell: the first entry of the direction through the position
EntryForCell(position, direction) ==
    Entries[CHOOSE n \in DOMAIN Entries :
        /\ Entries[n].direction = direction
        /\ \E j \in DOMAIN Positions(Entries[n]) :
              Positions(Entries[n])[j] = position
        /\ \A m \in 1..(n - 1) :
              ~(/\ Entries[m].direction = direction
                /\ \E j \in DOMAIN Positions(Entries[m]) :
                      Positions(Entries[m])[j] = position)]

\* WebEntry::conflicting_entries: the crossing entry of every cell that
\* holds another letter than the answer has there
ConflictingEntries(cs, e, ans) ==
    {EntryForCell(Positions(e)[j], Cross(e.direction)) :
        j \in {k \in DOMAIN Positions(e) :
                  /\ k <= Len(ans)
                  /\ Chars(cs, e)[k] # None
                  /\ Chars(cs, e)[k] # Some(ans[k])}}

RECURSIVE Reverse(_)
Reverse(seq) ==
    IF seq = << >> THEN << >> ELSE Append(Reverse(Tail(seq)), Head(seq))

\* WebEntry::crossing_entries: the entries of the other direction that
\* share a cell, the last first
CrossingEntries(e) ==
    Reverse(SelectSeq(Entries, LAMBDA x :
        /\ x.direction # e.direction
        /\ \E j \in DOMAIN Positions(x), k \in DOMAIN Positions(e) :
              Positions(x)[j] = Positions(e)[k]))

\* `for x in items { deque.push_front(x) }`
RECURSIVE PushFrontAll(_, _)
PushFrontAll(deque, items) ==
    IF items = << >> THEN deque
    ELSE PushFrontAll(<<Head(items)>> \o deque, Tail(items))

\* fork_entries: an InMemoryCell per position with the value of now
ForkEntries(cs) == cs

\* prompt_for_clue: the text of the clue, the length and the pattern of
\* its entry, and the list of all the clues (the same in every prompt)
PromptForClue(cs, e) ==
    [clue |-> e, length |-> StrLen(Value(cs, e)), pattern |-> Value(cs, e)]

\* .to_ascii_uppercase().replace('_', "") of the LLM's response
Normalise(raw) == SelectSeq(ToAsciiUppercase(raw), LAMBDA ch : ch # "_")

\* the responses of the LLM: the right length, an underscore to drop, one
\* letter short, and one letter of two bytes
Responses ==
    {<<"a", "b">>, <<"B", "a">>, <<"b", "_", "b">>, <<"a">>, <<"e-acute">>}

\* self.cache.get(&prompt)
CacheGet(ch, prompt) ==
    IF \E n \in DOMAIN ch : ch[n].prompt = prompt
    THEN Some(ch[CHOOSE n \in DOMAIN ch : ch[n].prompt = prompt].answer)
    ELSE None

\* the requests sent to the LLM at most
MaxAsks == 5

\* the web page: its solution, one of two
Solutions ==
    {[q \in Fillable(Puzzle) |-> IF q.row = q.column THEN "A" ELSE "B"],
     [q \in Fillable(Puzzle) |-> IF q.row = 0 THEN "A" ELSE "B"]}

\* MiniWebPuzzle::verify_entries: is_complete of the page
VerifyEntries(pg, cs) == \A q \in DOMAIN cs : cs[q] = Some(pg.solution[q])

\* LLMSolver::new and the first lines of solve: the entries generated,
\* one empty checkpoint
InitXword ==
    /\ pc = "solve"
    /\ grid = Puzzle
    /\ page \in [solution : Solutions]
    /\ cells = [q \in Fillable(Puzzle) |-> None]
    /\ checkpoints = << << >> >>
    /\ cache = << >>
    /\ asked = << >>
    /\ queue = << >> /\ found = << >>
    /\ clue = << >> /\ run = << >> /\ reply = << >>
    /\ answer = << >> /\ guesser = << >> /\ remaining = << >>
    /\ patterns = << >> /\ history = << >> /\ dictionary = {}
    /\ guess = << >> /\ mask = << >> /\ admitted = FALSE /\ i = 1
    /\ result = << >> /\ truthful = TRUE /\ stepwise = TRUE
    /\ text = << >> /\ output = << >>

\* the attempts of solve_grid followed at most
MaxAttempts == 3

\* solve: a checkpoint is popped, the entries it holds are written back
\* (the first, empty one holds none), and solve_grid starts on all
\* entries; `run` lists the checkpoints restored so far
SolvePop ==
    /\ pc = "solve"
    /\ checkpoints # << >>
    /\ Len(run) < MaxAttempts
    /\ checkpoints' = Tail(checkpoints)
    /\ cells' = IF Head(checkpoints) = << >> THEN cells
                ELSE Head(checkpoints)
    /\ run' = Append(run, Head(checkpoints))
    /\ queue' = Entries
    /\ found' = << >>
    /\ pc' = "grid"
    /\ UNCHANGED <<grid, clue, reply, cache, asked>>
    /\ UNCHANGED wordleVars

\* solve: no checkpoint left, Ok(false)
SolveGivesUp ==
    /\ pc = "solve"
    /\ checkpoints = << >>
    /\ pc' = "unsolved"
    /\ UNCHANGED crosswordVars
    /\ UNCHANGED wordleVars

\* solve_grid: the entry popped is filled already
GridSkip ==
    /\ pc = "grid"
    /\ queue # << >>
    /\ Filled(cells, Head(queue))
    /\ queue' = Tail(queue)
    /\ clue' = Head(queue)
    /\ reply' = << >>
    /\ UNCHANGED <<pc, grid, cells, run, found, checkpoints, cache, asked>>
    /\ UNCHANGED wordleVars

\* the rest of the loop body once solve_clue gave `ans` (None or Some)
\* for the entry e popped
GridEnter(e, ans) ==
    /\ clue' = e
    /\ reply' = ans
    /\ IF ans = None
       THEN /\ queue' = Tail(queue)
            /\ UNCHANGED <<cells, found>>
       ELSE IF Fits(cells, e, ans[1])
       THEN /\ cells' = Write(cells, e, ans[1])
            /\ queue' = PushFrontAll(Tail(queue), CrossingEntries(e))
            /\ found' = found
       ELSE LET RECURSIVE ClearAll(_, _)
                ClearAll(st, es) ==
                    IF es = {} THEN st
                    ELSE LET x == CHOOSE y \in es : TRUE
                         IN  ClearAll(Clear(st, x), es \ {x})
                state == Write(ClearAll(ForkEntries(cells),
                                        ConflictingEntries(cells, e, ans[1])),
                               e, ans[1])
            IN  /\ found' = Append(found, state)
                /\ queue' = Tail(queue)
                /\ cells' = cells
    /\ UNCHANGED <<pc, grid, run, checkpoints>>
    /\ UNCHANGED wordleVars

\* the entries waiting in next_entries at most: an answer of fewer letters
\* than cells fits again and again, and each time adds the crosses
MaxQueue == 6

\* solve_grid: the entry popped is not filled and its prompt is cached
GridAskCached ==
    /\ pc = "grid"
    /\ queue # << >>
    /\ Len(queue) <= MaxQueue
    /\ ~Filled(cells, Head(queue))
    /\ CacheGet(cache, PromptForClue(cells, Head(queue))) # None
    /\ GridEnter(Head(queue),
                 CacheGet(cache, PromptForClue(cells, Head(queue)))[1])
    /\ UNCHANGED <<cache, asked>>

\* solve_grid: the entry popped is not filled and the LLM is asked
GridAskLLM ==
    /\ pc = "grid"
    /\ queue # << >>
    /\ Len(queue) <= MaxQueue
    /\ ~Filled(cells, Head(queue))
    /\ CacheGet(cache, PromptForClue(cells, Head(queue))) = None
    /\ Len(asked) < MaxAsks
    /\ \E raw \in Responses :
          LET prompt == PromptForClue(cells, Head(queue))
              ans    == Normalise(raw)
              ok     == StrLen(ans) = Length(cells, Head(queue))
          IN  /\ asked' = Append(asked, prompt)
              /\ cache' = IF ok
                          THEN Append(cache, [prompt |-> prompt,
                                              answer |-> Some(ans)])
                          ELSE cache
              /\ GridEnter(Head(queue), IF ok THEN Some(ans) ELSE None)

\* solve_grid: no entry left and the page is complete; solve gives Ok(true)
GridSolved ==
    /\ pc = "grid"
    /\ queue = << >>
    /\ VerifyEntries(page, cells)
    /\ pc' = "solved"
    /\ UNCHANGED crosswordVars
    /\ UNCHANGED wordleVars

\* solve_grid: no entry left and the page is not complete: the checkpoints
\* found are reversed and solve pushes each to the front of its own
GridFailed ==
    /\ pc = "grid"
    /\ queue = << >>
    /\ ~VerifyEntries(page, cells)
    /\ checkpoints' = PushFrontAll(checkpoints, Reverse(found))
    /\ pc' = "solve"
    /\ UNCHANGED <<grid, cells, clue, run, reply, queue, found, cache, asked>>
    /\ UNCHANGED wordleVars

NextXword ==
    \/ SolvePop \/ SolveGivesUp \/ GridSkip \/ GridAskCached \/ GridAskLLM
    \/ GridSolved \/ GridFailed

SpecXword == InitXword /\ [][NextXword]_vars

-----------------------------------------------------------------------------
(* The reference scores: every word against all 243 patterns               *)

\* the reference loop: the same scoring, each word over the whole of
\* Permutations (the patterns of total 0 skipped for that word only)
RECURSIVE RefScoreLoop(_, _, _, _)
RefScoreLoop(R, N, best, k) ==
    IF k > Len(R) THEN best
    ELSE LET word     == R[k][1]
             nonzero  == SelectSeq(Permutations,
                            LAMBDA q : InPatternTotal(R, word, q, 1) # 0)
             goodness == NegSum(R, word, nonzero, N, 1) * R[k][2]
             cand     == [word |-> word, goodness |-> goodness]
             best2    == IF best = None THEN Some(cand)
                         ELSE IF goodness > best[1].goodness THEN Some(cand)
                         ELSE best
         IN  RefScoreLoop(R, N, best2, k + 1)

\* the word the reference solver returns for the candidate list R
RefChoice(R) == RefScoreLoop(R, CountSum(R, 1), None, 1)[1].word

\* S(w, p): the mass of the candidates whose feedback for w is p
RECURSIVE Mass(_, _, _, _)
Mass(R, w, p, k) ==
    IF k > Len(R) THEN 0
    ELSE (IF Compute(R[k][1], w) = p THEN R[k][2] ELSE 0)
         + Mass(R, w, p, k + 1)

\* N^2 * 2^16 * goodness(w), goodness(w) = (count(w) / N) * H(w), for the
\* word w = R[k][1]: H sums -P log2 P over the patterns of positive mass
RECURSIVE EntropySum(_, _, _, _)
EntropySum(R, w, N, ps) ==
    IF ps = {} THEN 0
    ELSE LET p == CHOOSE q \in ps : TRUE
             m == Mass(R, w, p, 1)
         IN  m * (Log2Fix[N] - Log2Fix[m]) + EntropySum(R, w, N, ps \ {p})

Goodness(R, k) ==
    R[k][2] * EntropySum(R, R[k][1], CountSum(R, 1),
                         {Compute(R[j][1], R[k][1]) : j \in DOMAIN R})

\* a call of the entropy solver with a non-empty history has returned
SolverReturned ==
    /\ guesser.kind = "solver"
    /\ pc = "judge"
    /\ history # << >>

SharedPatternsKeepChoice ==
    SolverReturned => guess = RefChoice(remaining)

\* C8: for a non-empty history guess returns the word of R of maximal
\* goodness, and of several words of maximal goodness the first in R.
ReturnsFirstMaximum ==
    SolverReturned =>
        \E k \in DOMAIN remaining :
            /\ remaining[k][1] = guess
            /\ \A j \in DOMAIN remaining :
                  Goodness(remaining, j) <= Goodness(remaining, k)
            /\ \A j \in 1..(k - 1) :
                  Goodness(remaining, j) < Goodness(remaining, k)

\* the first non-winning turn of a script on which the guess is the answer
ScriptHits ==
    {n \in 1..MaxTurns : ScriptGuess(guesser, [k \in 1..(n - 1) |-> 0]) = answer}

\* C7: with a guesser whose guesses are dictionary words, play returns
\* Some(k) for the first turn k <= 32 on which the guess is the answer, and
\* None when none of the 32 guesses is the answer.
PlayScoresFirstHit ==
    (/\ guesser.kind = "script"
     /\ {guesser.hit, guesser.miss} \subseteq DictWords
     /\ pc \in {"returned", "panicked"}) =>
        /\ pc = "returned"
        /\ result = IF ScriptHits = {} THEN None ELSE Some(Min(ScriptHits))

\* the answer comes on the sixth turn after five other dictionary words
PlayScoresFirstHitWitness ==
    /\ guesser.kind = "script"
    /\ guesser.hit = answer
    /\ guesser.miss \in DictWords \ {answer}
    /\ pc = "returned"
    /\ result = Some(6)
    /\ Len(history) = 5

\* C10 as stated: a guess outside the dictionary always aborts play.
InvalidGuessIsFatal ==
    [][(pc = "judge" /\ guess \notin DictWords) => pc' = "panicked"]_vars

\* C10, amended: a guess outside the dictionary that is not the answer
\* aborts play (the assert, no score); a guess equal to the answer returns
\* Some(i) before the assert is reached, in the dictionary or not.
InvalidWrongGuessIsFatal ==
    [][/\ (pc = "judge" /\ guess \notin DictWords /\ guess # answer)
             => (pc' = "panicked" /\ result' = None /\ history' = history)
       /\ (pc = "judge" /\ guess = answer)
             => (pc' = "returned" /\ result' = Some(i))]_vars

\* a guesser that leaves the dictionary on a later turn, not on the answer
InvalidWrongGuessIsFatalWitness ==
    /\ pc = "panicked"
    /\ guesser.kind = "script"
    /\ guess \notin DictWords
    /\ guess # answer
    /\ Len(history) >= 2
    /\ result = None

\* C11: in Wordle::play the history is truthful, append-only and oldest
\* first.  A step leaves the history alone or appends the observation
\* (guess, feedback of the answer for guess) of a guess that is not the
\* answer; the guesser is called on turn i with exactly i - 1 observations
\* (for a scripted guesser the j-th is the word it returned on turn j), and
\* only while none of the earlier guesses was the answer.
PlayHistoryAppendOnly ==
    [][/\ \/ history' = history
          \/ /\ guess # answer
             /\ history' = Append(history,
                    [word |-> guess, mask |-> RefFeedback(answer, guess)])
       /\ (pc = "guess" /\ pc' # "returned") =>
             /\ Len(history) = i - 1
             /\ \A j \in DOMAIN history :
                   /\ history[j].word # answer
                   /\ history[j].mask = Compute(answer, history[j].word)
                   /\ guesser.kind = "script" =>
                         history[j].word =
                             ScriptGuess(guesser, SubSeq(history, 1, j - 1))
       /\ pc = "returned" => pc' = "returned"]_vars

\* the solver is called on turn 4 with three different observations
PlayHistoryAppendOnlyWitness ==
    /\ guesser.kind = "solver"
    /\ pc = "judge"
    /\ i = 4
    /\ Len(history) = 3
    /\ history[1].word = crate
    /\ history[1] # history[2]
    /\ history[2] # history[3]
    /\ history[3].mask = Compute(answer, history[3].word)

\* C12: for every five-letter word w, compute(w, w) is all Correct.
SelfFeedbackAllCorrect ==
    (pc = "computed" /\ answer = guess) =>
        mask = <<Correct, Correct, Correct, Correct, Correct>>

\* a word with a repeated letter against itself
SelfFeedbackAllCorrectWitness ==
    /\ pc = "computed"
    /\ answer = guess
    /\ guess = W("a", "b", "a", "a", "c")
    /\ mask = AllCorrect

\* C13: for every answer, guess and letter x, the guess positions holding
\* x that are marked Correct or Misplaced are min(occurrences of x in the
\* guess, occurrences of x in the answer) many (so no answer copy taken by
\* a green, before or after, is credited to a yellow as well), and among
\* the non-Correct occurrences of x in the guess the Misplaced ones are
\* the leftmost.
CreditsAreMinOfOccurrences ==
    pc = "computed" =>
        \A x \in {guess[k] : k \in Idx} :
            LET Occ(w, y)     == {k \in Idx : w[k] = y}
                Smaller(m, n) == IF m <= n THEN m ELSE n
                credited == {k \in Occ(guess, x) : mask[k] # Wrong}
                yellows  == {k \in Occ(guess, x) : mask[k] = Misplaced}
                wrongs   == {k \in Occ(guess, x) : mask[k] = Wrong}
            IN  /\ Cardinality(credited) =
                      Smaller(Cardinality(Occ(guess, x)),
                              Cardinality(Occ(answer, x)))
                /\ \A k \in Occ(guess, x) :
                      mask[k] = Correct <=> answer[k] = x
                /\ \A y \in yellows : \A w \in wrongs : y < w

\* baaca / aacaa: the greens at 2 and 5 keep their copies, the one spare a
\* goes to the leftmost other a (position 1), the a at 4 is Wrong
CreditsAreMinOfOccurrencesWitness ==
    /\ pc = "computed"
    /\ answer = W("b", "a", "a", "c", "a")
    /\ guess = W("a", "a", "c", "a", "a")
    /\ mask = <<Misplaced, Correct, Misplaced, Wrong, Correct>>

\* C14: Correctness::permutations yields 243 patterns, no two the same, so
\* every element of {Correct, Misplaced, Wrong}^5 exactly once, and the
\* solver just constructed holds exactly this list.
PermutationsComplete ==
    pc = "new" =>
        /\ patterns = Permutations
        /\ Len(patterns) = 243
        /\ \A m, n \in DOMAIN patterns :
              patterns[m] = patterns[n] => m = n
        /\ {patterns[n] : n \in DOMAIN patterns} =
              [Idx -> {Correct, Misplaced, Wrong}]

\* the list of the new solver: all Correct first, the last position
\* varying fastest, all Wrong last
PermutationsCompleteWitness ==
    /\ pc = "new"
    /\ remaining = DICTIONARY
    /\ patterns[1] = AllCorrect
    /\ patterns[2] = <<Correct, Correct, Correct, Correct, Misplaced>>
    /\ patterns[4] = <<Correct, Correct, Correct, Misplaced, Correct>>
    /\ patterns[243] = <<Wrong, Wrong, Wrong, Wrong, Wrong>>

\* C15: guess called with an empty history returns the opening word
\* "crate" on every call, whatever the candidate set and the pattern list
\* are (and leaves both as they were).
OpenerIsFixed ==
    [][history' = << >> =>
          /\ pc' = "called"
          /\ guess' = W("c", "r", "a", "t", "e")
          /\ remaining' = remaining
          /\ patterns' = patterns]_vars

\* an empty history handed to a solver in the middle of a game
OpenerIsFixedWitness ==
    /\ pc = "called"
    /\ history = << >>
    /\ guess = crate
    /\ ~stepwise
    /\ Len(remaining) < Len(DICTIONARY)
    /\ Len(patterns) < 243

\* C16: when the pruning by the last observation leaves exactly one entry
\* in the candidate set, guess returns that entry's word, whatever its
\* count and whatever the pattern list was.
SingleCandidateIsReturned ==
    [][(history' # << >> /\ Len(remaining') = 1)
          => (pc' = "called" /\ guess' = remaining'[1][1])]_vars

\* a last candidate of count 3, scored on a pattern list already shrunk
SingleCandidateIsReturnedWitness ==
    /\ pc = "called"
    /\ history # << >>
    /\ Len(remaining) = 1
    /\ remaining[1][2] = 3
    /\ guess = remaining[1][1]
    /\ Len(history) >= 2

\* C17: loading the dictionary is fatal on any malformed line: Wordle::new
\* and WordleSolver::new both abort unless every line is a five-byte word,
\* one space and a non-negative integer count, so that no Wordle and no
\* solver exists for a dictionary with a malformed line.
MalformedLineIsFatal ==
    LET IsDigit(c)    == \E d \in DOMAIN Digits : c = Digits[d]
        WellFormed(l) == /\ Len(l) >= 7
                         /\ \A k \in 1..5 : l[k] # " "
                         /\ l[6] = " "
                         /\ \A k \in 7..Len(l) : IsDigit(l[k])
    IN  pc \in {"wordle", "solver", "both"} =>
            \A k \in DOMAIN text : WellFormed(text[k])

\* C18: every game of main ends with a printed outcome: when a guess got
\* the all-Correct mask the last line names the solved word, after one
\* mask line for each turn played; when the six guesses are used up
\* without success the last line is a failure line, printed after the
\* sixth mask line.
MainPrintsOutcome ==
    pc = "returned" =>
        /\ output # << >>
        /\ LET last == output[Len(output)]
           IN  IF mask = AllCorrect
               THEN /\ last.line = "Puzzle complete, Word was "
                    /\ last.word = ToAsciiUppercase(answer)
                    /\ Len(output) = i + 1
               ELSE last.line \notin {"Guessed: ",
                                      "Puzzle complete, Word was "}

\* C19: whenever guess scores a candidate w (non-empty history), the
\* masses in_pattern_total of the patterns it iterates for w add up to N,
\* the total count of the pruned candidate set: the patterns iterated
\* partition the set, the probabilities of the entropy sum add up to 1.
\* (The patterns of total 0 add nothing: the sum is taken over the list as
\* the retain of entry k leaves it.)
IteratedMassesSumToN ==
    [][(guesser.kind = "solver" /\ pc = "guess" /\ history # << >>) =>
          \A k \in DOMAIN remaining' :
              TotalOver(remaining', remaining'[k][1],
                        PatternsAt(remaining', patterns, k + 1), 1)
                  = CountSum(remaining', 1)]_vars

\* C20: for a non-empty history the word guess returns is an entry of the
\* candidate set as pruned by that call; so it is consistent with the last
\* observation and, in a game played turn by turn, with every observation
\* of the history.
ReturnsACandidate ==
    (pc = "called" /\ history # << >>) =>
        /\ guess \in WordsOf(remaining)
        /\ Matches(history[Len(history)], guess)
        /\ stepwise => \A n \in DOMAIN history : Matches(history[n], guess)

\* the third call of a game: a word other than the first of several
\* candidates, after two different observations
ReturnsACandidateWitness ==
    /\ pc = "called"
    /\ stepwise
    /\ Len(history) = 2
    /\ history[1] # history[2]
    /\ Len(remaining) >= 2
    /\ Len(remaining) < Len(DICTIONARY)
    /\ guess \in WordsOf(remaining)
    /\ guess # remaining[1][1]

\* C21: in a game of play with the solver (the oracle is truthful), the
\* word guessed on a turn that did not win is gone from the candidate set
\* after the next call, which leaves the set strictly smaller (every call
\* from turn 2 on), and the word a call returns is none of the words
\* guessed before.
GuessedWordIsPruned ==
    [][(guesser.kind = "solver" /\ pc = "guess" /\ history # << >>) =>
          /\ history[Len(history)].word \notin WordsOf(remaining')
          /\ Len(remaining') < Len(remaining)
          /\ pc' = "judge" =>
                \A j \in DOMAIN history : guess' # history[j].word]_vars

\* a sixth guess that is none of the five before it
GuessedWordIsPrunedWitness ==
    /\ guesser.kind = "solver"
    /\ pc = "judge"
    /\ Len(history) = 5
    /\ \A j, k \in DOMAIN history :
          history[j].word = history[k].word => j = k
    /\ \A j \in DOMAIN history : guess # history[j].word
    /\ Len(remaining) = 1

\* C22: guess is idempotent on a repeated history: a call with the same
\* non-empty history as the call just before it returns the same word and
\* leaves the candidate set as it was.
RepeatedCallIsIdempotent ==
    [][(pc = "called" /\ history # << >> /\ history' = history) =>
          /\ pc' = "called"
          /\ guess' = guess
          /\ remaining' = remaining]_vars

\* C27: guess called with an empty history changes nothing in the solver:
\* the candidate set and the pattern list are after the call what they
\* were before it.
EmptyHistoryChangesNothing ==
    [][history' = << >> =>
          (remaining' = remaining /\ patterns' = patterns)]_vars

\* an empty history after two calls that pruned both lists: they are
\* still the pruned ones
EmptyHistoryChangesNothingWitness ==
    /\ pc = "called"
    /\ history = << >>
    /\ ~stepwise
    /\ Len(remaining) \in 1..3
    /\ Len(patterns) \in 1..10
    /\ remaining # DICTIONARY
    /\ patterns # Permutations

\* C28: main's loop makes at most 6 guesses; the i-th guess is typed into
\* row i of the page, whose tiles are the mask of turn i; the solver is
\* called on turn i with exactly the i - 1 earlier (guess, mask) pairs in
\* order; once a mask is all Correct main returns, with no further guess
\* and no observation appended.  The page being truthful, the mask is all
\* Correct exactly when the guess is the answer (the test of Wordle::play).
MainLoopIsBounded ==
    /\ Len(page) <= 6
    /\ pc \in {"guess", "submit"} =>
          /\ i <= 6 \/ (pc = "guess" /\ i = 7)
          /\ Len(history) = i - 1
          /\ Len(page) = i - 1
          /\ \A j \in DOMAIN history :
                /\ page[j].word = history[j].word
                /\ page[j].tiles = history[j].mask
                /\ history[j].mask # AllCorrect
    /\ pc = "returned" =>
          \/ /\ mask = AllCorrect
             /\ guess = answer
             /\ Len(page) = i
             /\ Len(history) = i - 1
             /\ page[i] = [word |-> guess, tiles |-> mask]
             /\ \A j \in DOMAIN history : history[j].word # answer
          \/ /\ i = 7
             /\ Len(history) = 6
             /\ \A j \in DOMAIN history : history[j].word # answer

\* the answer comes on the sixth guess: six rows, five observations
MainLoopIsBoundedWitness ==
    /\ pc = "returned"
    /\ mask = AllCorrect
    /\ i = 6
    /\ Len(page) = 6
    /\ Len(history) = 5
    /\ page[6].word = answer

\* C23: in Naive::guess the mass of a pattern p for a hypothetical guess w
\* is the sum of the counts of the remaining candidates whose feedback for
\* w is p, each candidate adding its own count; the probability is that
\* mass over the total count of the remaining set (so the masses of one
\* word sum to that total).
NaiveMassIsCandidateCounts ==
    (guesser.kind = "naive" /\ pc = "called" /\ history # << >>) =>
        \A k \in DOMAIN remaining : \A q \in DOMAIN Permutations :
            NaiveInPatternTotal(NaiveFeedbacks(remaining, remaining[k][1], 1),
                                remaining[k][2], Permutations[q], 1)
                = Mass(remaining, remaining[k][1], Permutations[q], 1)

\* C29: Grid.cells_for_clue returns, in order, exactly the maximal run of
\* fillable cells that starts at the clue's position and advances in the
\* clue's direction (column + 1 for Across, row + 1 for Down), stopping
\* before the first shaded cell or at the grid edge; it is empty when the
\* start cell is shaded or outside the grid.
CellsForClueIsMaximalRun ==
    pc \in {"cells", "entered"} =>
        LET at(j) == IF clue.direction = Across
                     THEN Pos(clue.position.row, clue.position.column + j)
                     ELSE Pos(clue.position.row + j, clue.position.column)
            open(q) == q \in Fillable(grid)
        IN  /\ \A j \in DOMAIN run : run[j] = at(j - 1) /\ open(run[j])
            /\ ~open(at(Len(run)))
            /\ ~open(clue.position) => run = << >>

\* the across clue of the test grid stops before the shaded cell, its down
\* clue at the edge
CellsForClueIsMaximalRunWitness ==
    /\ pc = "cells"
    /\ grid = TestGrid
    /\ clue = [position |-> Pos(0, 0), direction |-> Across]
    /\ run = <<Pos(0, 0)>>

\* C30: after Grid.enter_answer(clue, answer) with an answer as long as
\* the clue's run of cells, the i-th cell of the clue holds the upper-cased
\* i-th letter, every crossing clue reads that letter for the shared cell,
\* and every fillable cell outside the clue is unchanged; an answer of a
\* different length aborts without writing any cell.
EnterAnswerWritesTheRun ==
    [][pc' \in {"entered", "panicked"} =>
        IF Len(reply') = Len(run')
        THEN /\ pc' = "entered"
             /\ \A j \in DOMAIN run' :
                   /\ cells'[run'[j]] = Some(ToAsciiUppercase(reply')[j])
                   /\ \A d \in GridClues :
                         LET dl == CellsForClue(grid, d.position, d.direction)
                         IN  \A k \in DOMAIN dl :
                               (d.direction # clue'.direction
                                  /\ dl[k] = run'[j]) =>
                                 AnswerFor(grid, cells', d)[k]
                                     = ToAsciiUppercase(reply')[j]
             /\ \A q \in DOMAIN cells :
                   (\A j \in DOMAIN run' : run'[j] # q) =>
                       cells'[q] = cells[q]
        ELSE /\ pc' = "panicked"
             /\ cells' = cells]_vars

\* C24: when solve_grid fails after recording the checkpoints c1, ..., ck
\* in that order, solve tries the states discovered later first: the next
\* checkpoint it restores is ck, and every checkpoint of the failed attempt
\* comes before any older pending checkpoint.
LaterCheckpointsFirst ==
    [][(pc = "grid" /\ pc' = "solve" /\ found # << >>) =>
          /\ Head(checkpoints') = found[Len(found)]
          /\ Len(checkpoints') = Len(found) + Len(checkpoints)
          /\ \A n \in 1..Len(found) :
                \E m \in DOMAIN found : checkpoints'[n] = found[m]
          /\ \A n \in DOMAIN checkpoints :
                checkpoints'[Len(found) + n] = checkpoints[n]]_vars

\* C25: solve_clue never sends the same prompt to the LLM twice: a prompt
\* asked once is answered from the cache ever after, with the same result
\* and no new request.
NeverAsksTwice ==
    \A m, n \in DOMAIN asked : asked[m] = asked[n] => m = n

\* C26: within solve_grid an entry already filled is never sent to the
\* LLM; an answer is written into the live grid only if it has the entry's
\* length and fits the letters there, and a write never changes a cell that
\* holds a letter; an answer that conflicts changes only the forked
\* checkpoint state, never the live entries.
WritesOnlyWhatFits ==
    [][(pc = "grid" /\ pc' = "grid") =>
          /\ asked' # asked => ~Filled(cells, clue')
          /\ cells' # cells =>
                /\ reply' # None
                /\ Len(reply'[1]) = Length(cells, clue')
                /\ Fits(cells, clue', reply'[1])
          /\ \A q \in DOMAIN cells : cells[q] # None => cells'[q] = cells[q]
          /\ (reply' # None /\ reply' # << >>
                /\ ~Fits(cells, clue', reply'[1])) =>
                /\ cells' = cells
                /\ found' = Append(found, found'[Len(found')])
                /\ found'[Len(found')] # cells]_vars

=============================================================================
